---- MODULE Spec2Model ----
(***************************************************************************)
(* A model of the day 5 almanac program (src/src/bin/day05.rs): the rule   *)
(* lookup (AlmanacMap::apply, apply_all), the seven-stage conversion       *)
(* (Almanac::convert_seed), the two seed paths (part1 over single seeds,   *)
(* part2 over (start, length) pairs) and the text parser; of the day 8     *)
(* walk (src/src/bin/day08.rs), of the day 4 card count                    *)
(* (src/src/bin/day04.rs), of the day 7 hand types (src/src/bin/day07.rs)  *)
(* and of the day 9 extrapolation (src/src/bin/day09.rs).                  *)
(*                                                                         *)
(* Option<T> is a sequence of length at most one (None is <<>>, Some(x) is *)
(* <<x>>); Result<T, E> is a tagged pair.  Where the values are far below  *)
(* 2^64, usize arithmetic is plain arithmetic on naturals; SpecWide runs   *)
(* the arithmetic of apply and of the seed range on 64-bit words.          *)
(***************************************************************************)
EXTENDS Integers, Sequences, FiniteSets, TLC

VARIABLES
    almanac,    \* the Almanac the run works on (struct Almanac)
    pc,         \* which of part1 and part2 ran: "idle", "part1", "part2"
    fed,        \* the seeds the run handed to convert_seed, in order
    result,     \* the Result part1/part2 returned, <<>> before that
    seed,       \* convert_seed's argument
    stage,      \* how many of convert_seed's apply_all calls have run
    value,      \* the value the next apply_all call receives
    applied,    \* the stages applied so far, by field name, in order
    maps,       \* apply_all's rule list
    arg,        \* the value given to apply / apply_all
    probe,      \* <<r>> once AlmanacMap::apply returned r, <<>> before that
    out,        \* apply_all's return value, an Option (None: not called)
    input,      \* the lines given to try_from, each a sequence of characters
    pos,        \* how many lines the lines iterator has yielded
    ppc,        \* where try_from is: "seeds", "blank", "header", "rows",
                \* "build", "returned"
    section,    \* the parse_maps call running or about to run, 1 to 7
    pseeds,     \* the seeds parsed from the first line
    pmaps,      \* the rules pushed so far, one list per finished or running call
    built,      \* what try_from returned, <<>> before that
    build,      \* the build profile of the 64-bit run: "debug" or "release"
    wmap,       \* the rule of the 64-bit run, its fields 64-bit words
    wval,       \* the value given to apply, and the start of the seed range
    wlen,       \* the length of the seed range
    wapplied,   \* <<outcome>> once apply ran on 64-bit words, <<>> before that
    wranged,    \* <<outcome>> once start..start + length was built
    vin,        \* a set of values given to one stage
    vout,       \* <<the set of their images>> once the stage mapped them
    xpc,        \* where main is on the example: "part1", "part2", "end"
    xtodo,      \* the seeds the example run's iterator has still to yield
    xseed,      \* the seed convert_seed is working on, an Option
    xstage,     \* how many of its apply_all calls have run
    xvalue,     \* the value the next apply_all call receives
    xacc,       \* Iterator::min's accumulator, an Option
    printed,    \* the results main printed so far, in order
    dmap,       \* day 8: the Map (moves and network)
    dpc,        \* day 8: "idle", "part1", "part2", "done"
    dstarts,    \* day 8: the starting positions still to walk
    dstart,     \* day 8: the starting position of the running steps_to_end
    dpos,       \* day 8: steps_to_end's pos
    dsteps,     \* day 8: steps_to_end's steps
    dtaken,     \* day 8: what steps_to_end returned for each start so far
    dacc,       \* day 8: the accumulator of fold(1, lcm)
    dret,       \* day 8: <<n>> once part1 / part2 returned n
    cards,      \* day 4: the parsed cards, in input order
    cidx,       \* day 4: how many cards part2's loop has processed
    copies,     \* day 4: part2's copies map
    total_cards, \* day 4: part2's total_cards
    mults,      \* day 4: the multiplier of each processed card, in order
    cret,       \* day 4: <<n>> once part2 returned Ok(n)
    ivs,        \* the intervals given to one stage of the interval propagation
    ovs,        \* <<the intervals the stage gives back>>, <<>> before that
    hand,       \* day 7: the Hand, its five cards
    type1,      \* day 7: <<what get_hand_type_1 returned>>, <<>> before that
    type2,      \* day 7: <<what get_hand_type_2 returned>>, <<>> before that
    nprofile,   \* day 9: the build profile, "debug" or "release"
    nseq,       \* day 9: the Sequence, its numbers 64-bit words
    fwd,        \* day 9: <<outcome of extrapolate>>, <<>> before that
    bwd,        \* day 9: <<outcome of extrapolate_backwards>>
    frev        \* day 9: <<outcome of extrapolate on the reversed Sequence>>

vars == <<almanac, pc, fed, result, seed, stage, value, applied,
          maps, arg, probe, out, input, pos, ppc, section, pseeds, pmaps, built,
          build, wmap, wval, wlen, wapplied, wranged, vin, vout,
          xpc, xtodo, xseed, xstage, xvalue, xacc, printed,
          dmap, dpc, dstarts, dstart, dpos, dsteps, dtaken, dacc, dret,
          cards, cidx, copies, total_cards, mults, cret,
          ivs, ovs, hand, type1, type2, nprofile, nseq, fwd, bwd,
         frev>>

runVars == <<pc, fed, result>>
convertVars == <<seed, stage, value, applied>>
stageVars == <<maps, arg, probe, out>>
parseVars == <<input, pos, ppc, section, pseeds, pmaps, built>>

wideVars == <<build, wmap, wval, wlen, wapplied, wranged>>
imageVars == <<vin, vout>>
exampleVars == <<xpc, xtodo, xseed, xstage, xvalue, xacc, printed>>
day08Vars == <<dmap, dpc, dstarts, dstart, dpos, dsteps, dtaken, dacc, dret>>
day04Vars == <<cards, cidx, copies, total_cards, mults, cret>>
mapperVars == <<ivs, ovs>>
day07Vars == <<hand, type1, type2>>
day09Vars == <<nprofile, nseq, fwd, bwd, frev>>

\* What each specification leaves alone.
offRun == <<convertVars, stageVars, parseVars,
            wideVars, imageVars, exampleVars, day08Vars, day04Vars,
            mapperVars, day07Vars, day09Vars>>
offConvert == <<runVars, parseVars,
                wideVars, imageVars, exampleVars, day08Vars, day04Vars,
                mapperVars, day07Vars, day09Vars>>
offStage == <<runVars, convertVars, parseVars,
              wideVars, imageVars, exampleVars, day08Vars, day04Vars,
              mapperVars, day07Vars, day09Vars>>
offParse == <<almanac, runVars, convertVars, stageVars,
              wideVars, imageVars, exampleVars, day08Vars, day04Vars,
              mapperVars, day07Vars, day09Vars>>
offWide == <<almanac, runVars, convertVars, stageVars, parseVars,
             imageVars, exampleVars, day08Vars, day04Vars,
             mapperVars, day07Vars, day09Vars>>
offImage == <<almanac, runVars, convertVars, parseVars,
              wideVars, exampleVars, day08Vars, day04Vars,
              mapperVars, day07Vars, day09Vars>>
offExample == <<runVars, convertVars, stageVars, parseVars,
                wideVars, imageVars, day08Vars, day04Vars,
                mapperVars, day07Vars, day09Vars>>
offDay08 == <<almanac, runVars, convertVars, stageVars, parseVars,
              wideVars, imageVars, exampleVars, day04Vars,
              mapperVars, day07Vars, day09Vars>>
offMapper == <<almanac, runVars, convertVars, arg, probe, out, parseVars,
               wideVars, imageVars, exampleVars, day08Vars, day04Vars,
               day07Vars, day09Vars>>
offDay07 == <<almanac, runVars, convertVars, stageVars, parseVars,
              wideVars, imageVars, exampleVars, day08Vars, day04Vars,
              mapperVars, day09Vars>>
offDay09 == <<almanac, runVars, convertVars, stageVars, parseVars,
              wideVars, imageVars, exampleVars, day08Vars, day04Vars,
              mapperVars, day07Vars>>
offDay04 == <<almanac, runVars, convertVars, stageVars, parseVars,
              wideVars, imageVars, exampleVars, day08Vars,
              mapperVars, day07Vars, day09Vars>>

----------------------------------------------------------------------------
(* Bounds of the model. *)

MaxVal == 2
MaxLen == 2
MaxSeeds == 4
MaxRules == 2
MaxLineLen == 5
MaxMoves == 2
MaxSteps == 6
MaxId == 3
MaxCards == 3

----------------------------------------------------------------------------
(* Option and Result. *)

None == <<>>
Some(x) == <<x>>
\* unwrap_or that falls back to 0 instead of the given default.
unwrap_or_zero(opt, default) == IF opt = None THEN 0 ELSE opt[1]

unwrap_or(opt, default) == IF opt = None THEN default ELSE opt[1]

Ok(x) == <<"Ok", x>>
Err(e) == <<"Err", e>>
ok_or(opt, e) == IF opt = None THEN Err(e) ELSE Ok(opt[1])

----------------------------------------------------------------------------
(* AlmanacMap and the stage lookup. *)

AlmanacMap(d, s, l) ==
    [destination_range_start |-> d, source_range_start |-> s, range_length |-> l]

\* apply with the source interval closed at its upper end.
apply_closed(map, v) ==
    IF v < map.source_range_start
       \/ v > map.source_range_start + map.range_length
    THEN None
    ELSE Some(v - map.source_range_start + map.destination_range_start)

\* apply that reads the rule's columns in the wrong order.
apply_swapped(map, v) ==
    IF v < map.destination_range_start
       \/ v >= map.destination_range_start + map.range_length
    THEN None
    ELSE Some(v - map.destination_range_start + map.source_range_start)

\* apply that forgets the offset inside the interval.
apply_flat(map, v) ==
    IF v < map.source_range_start
       \/ v >= map.source_range_start + map.range_length
    THEN None
    ELSE Some(map.destination_range_start)

apply(map, v) ==
    IF v < map.source_range_start
       \/ v >= map.source_range_start + map.range_length
    THEN None
    ELSE Some(v - map.source_range_start + map.destination_range_start)

\* filter_map over the rules in reverse order.
RECURSIVE filter_map_apply_rev(_, _)
filter_map_apply_rev(ms, v) ==
    IF ms = <<>> THEN <<>>
    ELSE filter_map_apply_rev(Tail(ms), v) \o apply(Head(ms), v)

RECURSIVE filter_map_apply(_, _)
filter_map_apply(ms, v) ==
    IF ms = <<>> THEN <<>>
    ELSE apply(Head(ms), v) \o filter_map_apply(Tail(ms), v)

next(it) == IF it = <<>> THEN None ELSE Some(Head(it))

\* apply_all that keeps the last rule's result instead of the first's.
apply_all_last(ms, v) ==
    LET hits == filter_map_apply(ms, v)
    IN  IF hits = <<>> THEN v ELSE hits[Len(hits)]

\* apply_all that feeds every rule the result of the rules before it.
RECURSIVE apply_all_chained(_, _)
apply_all_chained(ms, v) ==
    IF ms = <<>> THEN v
    ELSE apply_all_chained(Tail(ms), unwrap_or(apply(Head(ms), v), v))

apply_all(ms, v) == unwrap_or(next(filter_map_apply(ms, v)), v)

----------------------------------------------------------------------------
(* Almanac. *)

StageFields ==
    <<"seed_to_soil_maps", "soil_to_fertilizer_maps", "fertilizer_to_water_maps",
      "water_to_light_maps", "light_to_temperature_maps",
      "temperature_to_humidity_maps", "humidity_to_location_maps">>

Almanac(seeds, st) ==
    [seeds |-> seeds,
     seed_to_soil_maps |-> st[1],
     soil_to_fertilizer_maps |-> st[2],
     fertilizer_to_water_maps |-> st[3],
     water_to_light_maps |-> st[4],
     light_to_temperature_maps |-> st[5],
     temperature_to_humidity_maps |-> st[6],
     humidity_to_location_maps |-> st[7]]

\* convert_seed with the water and light stages exchanged.
convert_seed_swapped(a, s) ==
    LET soil == apply_all(a.seed_to_soil_maps, s)
        fertilizer == apply_all(a.soil_to_fertilizer_maps, soil)
        light == apply_all(a.water_to_light_maps, fertilizer)
        water == apply_all(a.fertilizer_to_water_maps, light)
        temperature == apply_all(a.light_to_temperature_maps, water)
        humidity == apply_all(a.temperature_to_humidity_maps, temperature)
    IN  apply_all(a.humidity_to_location_maps, humidity)

convert_seed(a, s) ==
    LET soil == apply_all(a.seed_to_soil_maps, s)
        fertilizer == apply_all(a.soil_to_fertilizer_maps, soil)
        water == apply_all(a.fertilizer_to_water_maps, fertilizer)
        light == apply_all(a.water_to_light_maps, water)
        temperature == apply_all(a.light_to_temperature_maps, light)
        humidity == apply_all(a.temperature_to_humidity_maps, temperature)
    IN  apply_all(a.humidity_to_location_maps, humidity)

\* start..end that skips start and yields end.
range_shifted(start, end) == [i \in 1..(end - start) |-> start + i]

range(start, end) == [i \in 1..(end - start) |-> start + i - 1]

\* Overlapping windows of two instead of consecutive pairs.
RECURSIVE tuples_windows(_)
tuples_windows(xs) ==
    IF Len(xs) < 2 THEN <<>>
    ELSE <<<<xs[1], xs[2]>>>> \o tuples_windows(Tail(xs))

\* tuples that pairs a value left over at the end with the length 1.
RECURSIVE tuples_padded(_)
tuples_padded(xs) ==
    IF xs = <<>> THEN <<>>
    ELSE IF Len(xs) = 1 THEN <<<<xs[1], 1>>>>
    ELSE <<<<xs[1], xs[2]>>>> \o tuples_padded(SubSeq(xs, 3, Len(xs)))

RECURSIVE tuples(_)
tuples(xs) ==
    IF Len(xs) < 2 THEN <<>>
    ELSE <<<<xs[1], xs[2]>>>> \o tuples(SubSeq(xs, 3, Len(xs)))

\* flat_map that drops the last value of every range.
RECURSIVE flat_map_range_short(_)
flat_map_range_short(ps) ==
    IF ps = <<>> THEN <<>>
    ELSE range(Head(ps)[1], Head(ps)[1] + Head(ps)[2] - 1)
         \o flat_map_range_short(Tail(ps))

RECURSIVE flat_map_range(_)
flat_map_range(ps) ==
    IF ps = <<>> THEN <<>>
    ELSE range(Head(ps)[1], Head(ps)[1] + Head(ps)[2]) \o flat_map_range(Tail(ps))

\* The seed list taken as single seeds again.
all_seeds_single(a) == a.seeds

\* The seeds convert_all_seeds_2 converts.
all_seeds(a) == flat_map_range(tuples(a.seeds))

map_convert_seed(a, xs) == [i \in DOMAIN xs |-> convert_seed(a, xs[i])]

convert_all_seeds(a) == map_convert_seed(a, a.seeds)

convert_all_seeds_2(a) == map_convert_seed(a, all_seeds(a))

\* min that keeps the larger value.
min_step_max(opt, x) == IF opt = None \/ x > opt[1] THEN Some(x) ELSE opt

\* One step of Iterator::min.
min_step(opt, x) == IF opt = None \/ x < opt[1] THEN Some(x) ELSE opt

RECURSIVE fold_min(_, _)
fold_min(opt, xs) ==
    IF Len(xs) = 0 THEN opt ELSE fold_min(min_step(opt, Head(xs)), Tail(xs))

\* .next() in place of .min(): the first converted value.
min_first(xs) == IF xs = <<>> THEN None ELSE Some(Head(xs))

min(xs) == fold_min(None, xs)

part1(a) == ok_or(min(convert_all_seeds(a)), "InvalidAlmanac")

part2(a) == ok_or(min(convert_all_seeds_2(a)), "InvalidAlmanac")

----------------------------------------------------------------------------
(* The inputs of the model. *)

Vals == 0..MaxVal
Rules ==
    [destination_range_start : Vals, source_range_start : Vals,
     range_length : 0..MaxLen]
SeedLists == UNION {[1..n -> Vals] : n \in 1..MaxSeeds}
StageIdx == 1..Len(StageFields)
NoRules == [i \in StageIdx |-> <<>>]
OneRule == {[NoRules EXCEPT ![p] = <<r>>] : p \in StageIdx, r \in Rules}
TwoRules == {[st EXCEPT ![q] = st[q] \o <<r>>] : st \in OneRule, q \in StageIdx, r \in Rules}
RuleLists == UNION {[1..n -> Rules] : n \in 0..MaxRules}

IdleRun ==
    /\ pc = "idle" /\ fed = <<>> /\ result = <<>>
IdleConvert ==
    /\ seed = 0 /\ stage = 0 /\ value = 0 /\ applied = <<>>
IdleStage ==
    /\ maps = <<>> /\ arg = 0 /\ probe = <<>> /\ out = None
IdleParse ==
    /\ input = <<>> /\ pos = 0 /\ ppc = "returned" /\ section = 0
    /\ pseeds = <<>> /\ pmaps = <<>> /\ built = <<>>
IdleWide ==
    /\ build = "idle" /\ wmap = <<>> /\ wval = <<>> /\ wlen = <<>>
    /\ wapplied = <<>> /\ wranged = <<>>
IdleImage ==
    /\ vin = {} /\ vout = <<>>
IdleExample ==
    /\ xpc = "idle" /\ xtodo = <<>> /\ xseed = None /\ xstage = 0 /\ xvalue = 0
    /\ xacc = None /\ printed = <<>>
IdleDay08 ==
    /\ dmap = <<>> /\ dpc = "idle" /\ dstarts = {} /\ dstart = <<>> /\ dpos = <<>>
    /\ dsteps = 0 /\ dtaken = <<>> /\ dacc = 1 /\ dret = <<>>
\* HashMap::new().
EmptyMap == [k \in {} |-> 0]

IdleDay04 ==
    /\ cards = <<>> /\ cidx = 0 /\ copies = EmptyMap /\ total_cards = 0
    /\ mults = <<>> /\ cret = <<>>
IdleMapper == ivs = <<>> /\ ovs = <<>>
IdleDay07 == hand = <<>> /\ type1 = <<>> /\ type2 = <<>>
IdleDay09 ==
    nprofile = "idle" /\ nseq = <<>> /\ fwd = <<>> /\ bwd = <<>> /\ frev = <<>>
IdleMore == IdleMapper /\ IdleDay07 /\ IdleDay09
IdleLater ==
    IdleWide /\ IdleImage /\ IdleExample /\ IdleDay08 /\ IdleDay04 /\ IdleMore

----------------------------------------------------------------------------
(* The run of part1 and part2 on an almanac. *)

Init ==
    /\ \E s \in SeedLists, st \in {NoRules} \cup OneRule : almanac = Almanac(s, st)
    /\ IdleRun /\ IdleConvert /\ IdleStage /\ IdleParse /\ IdleLater

Part1 ==
    /\ pc = "idle"
    /\ pc' = "part1"
    /\ fed' = almanac.seeds
    /\ result' = part1(almanac)
    /\ UNCHANGED <<almanac, offRun>>

Part2 ==
    /\ pc = "idle"
    /\ pc' = "part2"
    /\ fed' = all_seeds(almanac)
    /\ result' = part2(almanac)
    /\ UNCHANGED <<almanac, offRun>>

Next == Part1 \/ Part2

Spec == Init /\ [][Next]_vars

----------------------------------------------------------------------------
(* One call of convert_seed, one apply_all call per step (lines 92 to 99). *)
(* maps, arg and out hold the latest apply_all call.                       *)

InitConvert ==
    /\ \E s \in Vals, st \in {NoRules} \cup OneRule \cup TwoRules :
          almanac = Almanac(<<s>>, st)
    /\ seed = almanac.seeds[1] /\ value = almanac.seeds[1]
    /\ stage = 0 /\ applied = <<>>
    /\ IdleRun /\ IdleStage /\ IdleParse /\ IdleLater

Step(n, field) ==
    /\ stage = n - 1
    /\ maps' = almanac[field]
    /\ arg' = value
    /\ out' = Some(apply_all(almanac[field], value))
    /\ value' = apply_all(almanac[field], value)
    /\ stage' = n
    /\ applied' = Append(applied, field)
    /\ UNCHANGED <<almanac, seed, probe, offConvert>>

ToSoil == Step(1, "seed_to_soil_maps")
ToFertilizer == Step(2, "soil_to_fertilizer_maps")
ToWater == Step(3, "fertilizer_to_water_maps")
ToLight == Step(4, "water_to_light_maps")
ToTemperature == Step(5, "light_to_temperature_maps")
ToHumidity == Step(6, "temperature_to_humidity_maps")
ToLocation == Step(7, "humidity_to_location_maps")

NextConvert ==
    \/ ToSoil \/ ToFertilizer \/ ToWater \/ ToLight
    \/ ToTemperature \/ ToHumidity \/ ToLocation

SpecConvert == InitConvert /\ [][NextConvert]_vars

----------------------------------------------------------------------------
(* The stage lookup on its own: AlmanacMap::apply on one rule, and         *)
(* apply_all on a list of rules.                                           *)

Args == 0..(MaxVal + MaxLen + 1)

InitApply ==
    /\ maps \in {<<r>> : r \in Rules}
    /\ arg \in Args
    /\ probe = <<>> /\ out = None
    /\ almanac = Almanac(<<>>, NoRules)
    /\ IdleRun /\ IdleConvert /\ IdleParse /\ IdleLater

Apply ==
    /\ probe = <<>>
    /\ probe' = <<apply(maps[1], arg)>>
    /\ UNCHANGED <<almanac, maps, arg, out, offStage>>

SpecApply == InitApply /\ [][Apply]_vars

InitStage ==
    /\ maps \in RuleLists
    /\ arg \in Args
    /\ probe = <<>> /\ out = None
    /\ almanac = Almanac(<<>>, NoRules)
    /\ IdleRun /\ IdleConvert /\ IdleParse /\ IdleLater

ApplyAll ==
    /\ out = None
    /\ out' = Some(apply_all(maps, arg))
    /\ UNCHANGED <<almanac, maps, arg, probe, offStage>>

SpecStage == InitStage /\ [][ApplyAll]_vars

----------------------------------------------------------------------------
(* The parser: Almanac::try_from, parse_maps and AlmanacMap::from_str.  A  *)
(* line is the sequence of its characters.                                 *)

SeedsPrefix ==
    <<"s", "e", "e", "d", "s", ":", " ">>
SeedToSoilHeader ==
    <<"s", "e", "e", "d", "-", "t", "o", "-", "s", "o", "i", "l", " ", "m",
      "a", "p", ":">>
SoilToFertilizerHeader ==
    <<"s", "o", "i", "l", "-", "t", "o", "-", "f", "e", "r", "t", "i", "l",
      "i", "z", "e", "r", " ", "m", "a", "p", ":">>
FertilizerToWaterHeader ==
    <<"f", "e", "r", "t", "i", "l", "i", "z", "e", "r", "-", "t", "o", "-",
      "w", "a", "t", "e", "r", " ", "m", "a", "p", ":">>
WaterToLightHeader ==
    <<"w", "a", "t", "e", "r", "-", "t", "o", "-", "l", "i", "g", "h", "t",
      " ", "m", "a", "p", ":">>
LightToTemperatureHeader ==
    <<"l", "i", "g", "h", "t", "-", "t", "o", "-", "t", "e", "m", "p", "e",
      "r", "a", "t", "u", "r", "e", " ", "m", "a", "p", ":">>
TemperatureToHumidityHeader ==
    <<"t", "e", "m", "p", "e", "r", "a", "t", "u", "r", "e", "-", "t", "o",
      "-", "h", "u", "m", "i", "d", "i", "t", "y", " ", "m", "a", "p", ":">>
HumidityToLocationHeader ==
    <<"h", "u", "m", "i", "d", "i", "t", "y", "-", "t", "o", "-", "l", "o",
      "c", "a", "t", "i", "o", "n", " ", "m", "a", "p", ":">>

Headers ==
    <<SeedToSoilHeader, SoilToFertilizerHeader, FertilizerToWaterHeader,
      WaterToLightHeader, LightToTemperatureHeader, TemperatureToHumidityHeader,
      HumidityToLocationHeader>>

is_empty(s) == Len(s) = 0

strip_prefix(s, prefix) ==
    IF Len(s) >= Len(prefix) /\ SubSeq(s, 1, Len(prefix)) = prefix
    THEN Some(SubSeq(s, Len(prefix) + 1, Len(s)))
    ELSE None

\* str::split(' '): the pieces between separators, empty pieces kept.
RECURSIVE split(_, _)
split(s, sep) ==
    IF \A i \in DOMAIN s : s[i] # sep THEN <<s>>
    ELSE LET k == CHOOSE i \in DOMAIN s : s[i] = sep /\ \A j \in 1..(i - 1) : s[j] # sep
         IN  <<SubSeq(s, 1, k - 1)>> \o split(SubSeq(s, k + 1, Len(s)), sep)

Digits == <<"0", "1", "2", "3", "4", "5", "6", "7", "8", "9">>
is_digit(c) == \E d \in DOMAIN Digits : Digits[d] = c
to_digit(c) == (CHOOSE d \in DOMAIN Digits : Digits[d] = c) - 1

RECURSIVE digits_value(_)
digits_value(ds) ==
    IF ds = <<>> THEN 0
    ELSE 10 * digits_value(SubSeq(ds, 1, Len(ds) - 1)) + to_digit(ds[Len(ds)])

\* usize::from_str: an optional '+', then at least one digit and digits only
\* (a line of the model is too short to hold a number of 2^64 or more).
parse_usize(s) ==
    LET ds == IF s # <<>> /\ s[1] = "+" THEN Tail(s) ELSE s
    IN  IF ds = <<>> \/ \E i \in DOMAIN ds : ~is_digit(ds[i])
        THEN Err("ParseIntError")
        ELSE Ok(digits_value(ds))

collect_tuple(parts) == IF Len(parts) = 3 THEN Some(parts) ELSE None

from_str(s) ==
    LET parts == collect_tuple(split(s, " "))
    IN  IF parts = None THEN Err("InvalidAlmanacMap")
        ELSE LET d == parse_usize(parts[1][1])
                 src == parse_usize(parts[1][2])
                 l == parse_usize(parts[1][3])
             IN  IF d[1] = "Err" THEN d
                 ELSE IF src[1] = "Err" THEN src
                 ELSE IF l[1] = "Err" THEN l
                 ELSE Ok(AlmanacMap(d[2], src[2], l[2]))

\* map(parse).try_collect(): the first error, or every value.
try_collect_seeds(parts) ==
    IF \E i \in DOMAIN parts : parse_usize(parts[i])[1] = "Err"
    THEN Err("ParseIntError")
    ELSE Ok([i \in DOMAIN parts |-> parse_usize(parts[i])[2]])

\* The lines iterator: the next line as an Option.
lines_next == IF pos < Len(input) THEN Some(input[pos + 1]) ELSE None

Return(r) ==
    /\ built' = r
    /\ ppc' = "returned"

ParseSeeds ==
    /\ ppc = "seeds"
    /\ pos' = IF lines_next = None THEN pos ELSE pos + 1
    /\ LET seeds == IF lines_next = None THEN None
                    ELSE strip_prefix(lines_next[1], SeedsPrefix)
       IN  IF seeds = None
           THEN Return(Err("InvalidAlmanac")) /\ UNCHANGED pseeds
           ELSE LET collected == try_collect_seeds(split(seeds[1], " "))
                IN  IF collected[1] = "Err"
                    THEN Return(collected) /\ UNCHANGED pseeds
                    ELSE pseeds' = collected[2] /\ ppc' = "blank" /\ UNCHANGED built
    /\ UNCHANGED <<input, section, pmaps, offParse>>

ExpectBlank ==
    /\ ppc = "blank"
    /\ pos' = IF lines_next = None THEN pos ELSE pos + 1
    /\ IF lines_next # None /\ is_empty(lines_next[1])
       THEN ppc' = "header" /\ section' = 1 /\ UNCHANGED built
       ELSE Return(Err("InvalidAlmanac")) /\ UNCHANGED section
    /\ UNCHANGED <<input, pseeds, pmaps, offParse>>

\* Any line at all is taken for the header.
is_some_and_any(line, header) == line # None

\* lines.next().is_some_and(|s| s == header)
is_some_and_header(line, header) == line # None /\ line[1] = header

\* parse_maps up to its loop: the header line.
ParseHeader ==
    /\ ppc = "header"
    /\ pos' = IF lines_next = None THEN pos ELSE pos + 1
    /\ IF is_some_and_header(lines_next, Headers[section])
       THEN ppc' = "rows" /\ pmaps' = Append(pmaps, <<>>) /\ UNCHANGED built
       ELSE Return(Err("InvalidAlmanac")) /\ UNCHANGED pmaps
    /\ UNCHANGED <<input, section, pseeds, offParse>>

\* The end of parse_maps' loop, at an empty line or at the end of the input.
EndSection ==
    /\ section' = section + 1
    /\ ppc' = IF section = Len(Headers) THEN "build" ELSE "header"
    /\ UNCHANGED <<pmaps, built>>

\* One turn of parse_maps' loop.
ParseRow ==
    /\ ppc = "rows"
    /\ pos' = IF lines_next = None THEN pos ELSE pos + 1
    /\ IF lines_next = None \/ is_empty(lines_next[1])
       THEN EndSection
       ELSE LET map == from_str(lines_next[1])
            IN  IF map[1] = "Err"
                THEN Return(map) /\ UNCHANGED <<section, pmaps>>
                ELSE /\ pmaps' = [pmaps EXCEPT ![section] = Append(@, map[2])]
                     /\ UNCHANGED <<section, ppc, built>>
    /\ UNCHANGED <<input, pseeds, offParse>>

Build ==
    /\ ppc = "build"
    /\ Return(Ok(Almanac(pseeds, pmaps)))
    /\ UNCHANGED <<input, pos, section, pseeds, pmaps, offParse>>

Alphabet == {"0", "1", " ", "x"}
Lines == UNION {[1..n -> Alphabet] : n \in 0..MaxLineLen}

\* An almanac text with the given seeds line and rows in section p.
RECURSIVE Sections(_, _, _)
Sections(i, p, rows) ==
    IF i > Len(Headers) THEN <<>>
    ELSE <<Headers[i]>> \o (IF i = p THEN rows ELSE <<>>)
         \o (IF i < Len(Headers) THEN <<<<>>>> ELSE <<>>)
         \o Sections(i + 1, p, rows)

Text(seedsLine, p, rows) == <<seedsLine, <<>>>> \o Sections(1, p, rows)

Inputs ==
    {Text(SeedsPrefix \o s, 1, <<>>) : s \in {l \in Lines : Len(l) <= 3}}
    \cup {Text(SeedsPrefix \o <<"1">>, p, <<row>>) : p \in StageIdx, row \in Lines}

\* Almanac texts whose structure is broken: one line of a text is dropped,
\* cut off, misspelled or replaced, with seed values and a row that parse or
\* do not.
SeedTails == {<<"1">>, <<"x">>}
FaultRows == {<<"0", " ", "0", " ", "1">>, <<"x">>}
BaseTexts ==
    {Text(SeedsPrefix \o s, p, <<row>>) : s \in SeedTails, p \in StageIdx, row \in FaultRows}

LineOf(t, k) == CHOOSE i \in DOMAIN t : t[i] = Headers[k]
DropLine(t, i) == SubSeq(t, 1, i - 1) \o SubSeq(t, i + 1, Len(t))
CutAt(t, i) == SubSeq(t, 1, i - 1)
Misspell(t, i) == [t EXCEPT ![i] = SubSeq(@, 1, Len(@) - 1)]
OutOfOrder(t, k) == [t EXCEPT ![LineOf(t, k)] = Headers[(k % Len(Headers)) + 1]]

FaultyInputs ==
    {DropLine(t, LineOf(t, k)) : t \in BaseTexts, k \in StageIdx}
    \cup {CutAt(t, LineOf(t, k)) : t \in BaseTexts, k \in StageIdx}
    \cup {Misspell(t, LineOf(t, k)) : t \in BaseTexts, k \in StageIdx}
    \cup {OutOfOrder(t, k) : t \in BaseTexts, k \in StageIdx}
    \cup {DropLine(t, LineOf(t, k) - 1) : t \in BaseTexts, k \in StageIdx}
    \cup {[t EXCEPT ![1] = <<"s", "e", "e", "d", ":", " ", "1">>] : t \in BaseTexts}
    \cup {[t EXCEPT ![2] = <<"x">>] : t \in BaseTexts}
    \cup {<<>>}

InitParse ==
    /\ input \in Inputs \cup FaultyInputs
    /\ pos = 0 /\ ppc = "seeds" /\ section = 0
    /\ pseeds = <<>> /\ pmaps = <<>> /\ built = <<>>
    /\ almanac = Almanac(<<>>, NoRules)
    /\ IdleRun /\ IdleConvert /\ IdleStage /\ IdleLater

NextParse == ParseSeeds \/ ExpectBlank \/ ParseHeader \/ ParseRow \/ Build

SpecParse == InitParse /\ [][NextParse]_vars

----------------------------------------------------------------------------
(* What the claims speak of, stated apart from the operators above. *)

DeclaredOrder ==
    <<"seed_to_soil_maps", "soil_to_fertilizer_maps", "fertilizer_to_water_maps",
      "water_to_light_maps", "light_to_temperature_maps",
      "temperature_to_humidity_maps", "humidity_to_location_maps">>

\* x lies in the half-open source interval of rule m.
Contains(m, x) ==
    m.source_range_start <= x /\ x < m.source_range_start + m.range_length

\* Where rule m sends a value of its source interval.
Mapped(m, x) == x - m.source_range_start + m.destination_range_start

\* The rules of ms whose source interval contains x, by position.
Hits(ms, x) == {i \in DOMAIN ms : Contains(ms[i], x)}

SetMin(S) == CHOOSE x \in S : \A y \in S : x <= y

\* The first n stages of the declared order applied to v, left to right.
RECURSIVE FoldStages(_, _, _)
FoldStages(a, v, n) ==
    IF n = 0 THEN v ELSE apply_all(a[DeclaredOrder[n]], FoldStages(a, v, n - 1))

ScalarFold(a, v) == FoldStages(a, v, Len(DeclaredOrder))

\* The stages applied last to first.
RECURSIVE FoldReversed(_, _, _)
FoldReversed(a, v, n) ==
    IF n > Len(DeclaredOrder) THEN v
    ELSE apply_all(a[DeclaredOrder[n]], FoldReversed(a, v, n + 1))

\* The complete (start, length) pairs of a seed list, by position.
PairIdx(a) == 1..(Len(a.seeds) \div 2)
PairStart(a, k) == a.seeds[2 * k - 1]
PairLength(a, k) == a.seeds[2 * k]

\* Every integer of some seed range of the almanac.
SeedsOfRanges(a) ==
    {x \in 0..(2 * MaxVal) :
        \E k \in PairIdx(a) : PairStart(a, k) <= x /\ x < PairStart(a, k) + PairLength(a, k)}

Images(a, S) == {ScalarFold(a, x) : x \in S}

Part2Done == pc = "part2"
Part1Done == pc = "part1"

----------------------------------------------------------------------------
(* Claims. *)

\* C1: the range path on the single seed range (v, 1) returns exactly the
\* scalar fold of the seven stages on v, as part1 does for the seed list <<v>>.
C1_RangeOfOneIsScalarFold ==
    /\ (Part2Done /\ Len(almanac.seeds) = 2 /\ almanac.seeds[2] = 1)
          => result = Ok(ScalarFold(almanac, almanac.seeds[1]))
    /\ (Part1Done /\ Len(almanac.seeds) = 1)
          => result = Ok(ScalarFold(almanac, almanac.seeds[1]))

C1_Witness ==
    /\ Part2Done /\ Len(almanac.seeds) = 2 /\ almanac.seeds[2] = 1
    /\ result[1] = "Ok" /\ result[2] # almanac.seeds[1]

\* C2: the seeds the range path converts are exactly the integers of the seed
\* ranges, none dropped and none added, and part2 returns the minimum of their
\* images.
C2_RangePathConvertsExactlyTheRanges ==
    Part2Done =>
        /\ {fed[i] : i \in DOMAIN fed} = SeedsOfRanges(almanac)
        /\ SeedsOfRanges(almanac) # {}
              => result = Ok(SetMin(Images(almanac, SeedsOfRanges(almanac))))

C2_Witness ==
    /\ Part2Done /\ Len(almanac.seeds) = 4
    /\ PairLength(almanac, 1) >= 2 /\ PairLength(almanac, 2) >= 1
    /\ Cardinality(SeedsOfRanges(almanac)) >= 3
    /\ result[1] = "Ok"
    /\ result[2] # ScalarFold(almanac, PairStart(almanac, 1))

\* C8 as claimed: for every non-empty seed list part2 returns Ok and never the
\* error of min() over no values.
C8_FailsOnlyOnEmptySeedList ==
    (Part2Done /\ almanac.seeds # <<>>) => result[1] = "Ok"

\* C8 as amended: part2 returns the minimum of the mapped values of the seed
\* ranges, and InvalidAlmanac exactly when the ranges hold no value at all (no
\* complete pair has a length above 0); part1 returns the minimum over the
\* seeds and never that error.
C8_FailsExactlyWhenRangesAreEmpty ==
    /\ Part2Done =>
          IF SeedsOfRanges(almanac) = {}
          THEN result = Err("InvalidAlmanac")
          ELSE result = Ok(SetMin(Images(almanac, SeedsOfRanges(almanac))))
    /\ Part1Done =>
          result = Ok(SetMin(Images(almanac,
                                       {almanac.seeds[i] : i \in DOMAIN almanac.seeds})))

C8_Witness ==
    /\ Part2Done /\ Len(almanac.seeds) >= 2
    /\ result = Err("InvalidAlmanac")

\* C9 as claimed: a run whose seed list holds a pair (start, 0) ends in an
\* error and returns no minimum computed from the other ranges.
C9_ZeroLengthRangeRejected ==
    (Part2Done /\ \E k \in PairIdx(almanac) : PairLength(almanac, k) = 0)
        => result[1] = "Err"

\* C7: convert_seed applies the seven stages once each in the declared order,
\* the output of one being the input of the next.
C7_StagesFoldInDeclaredOrder ==
    /\ stage <= Len(DeclaredOrder)
    /\ applied = SubSeq(DeclaredOrder, 1, stage)
    /\ value = FoldStages(almanac, seed, stage)
    /\ stage = Len(DeclaredOrder) => value = convert_seed(almanac, seed)

C7_Witness ==
    /\ stage = Len(DeclaredOrder)
    /\ value # seed
    /\ value # FoldReversed(almanac, seed, 1)

\* C6: a value that no rule of a stage contains passes through apply_all
\* unchanged; so does every value through an empty stage, and every seed
\* through an almanac of seven empty stages.
C6_Passthrough ==
    /\ (out # None /\ Hits(maps, arg) = {}) => out = Some(arg)
    /\ (out # None /\ maps = <<>>) => out = Some(arg)
    /\ (stage = Len(DeclaredOrder) /\ \A i \in StageIdx : almanac[DeclaredOrder[i]] = <<>>)
          => value = seed

C6_Witness ==
    /\ out = Some(arg) /\ maps # <<>> /\ Hits(maps, arg) = {}
    /\ \A i \in DOMAIN maps : maps[i].range_length > 0
    /\ arg > 0

\* C3: apply maps exactly the values of the half-open source interval, by the
\* rule's offset; the value just below the interval and the value just past
\* its end are not mapped.
C3_ApplyHalfOpen ==
    probe # <<>> =>
        LET m == maps[1]
        IN  /\ IF m.source_range_start <= arg
                  /\ arg < m.source_range_start + m.range_length
               THEN probe[1] = Some(arg - m.source_range_start + m.destination_range_start)
               ELSE probe[1] = None
            /\ arg + 1 = m.source_range_start => probe[1] = None
            /\ arg = m.source_range_start + m.range_length => probe[1] = None

C3_Witness ==
    /\ probe # <<>>
    /\ maps[1].range_length >= 2
    /\ arg = maps[1].source_range_start + maps[1].range_length - 1
    /\ maps[1].destination_range_start # maps[1].source_range_start
    /\ probe[1] = Some(maps[1].destination_range_start + maps[1].range_length - 1)

\* C4 as claimed: apply_all returns the rule-mapped value when exactly one
\* rule contains the value, and the value unchanged in every other case.
C4_ExactlyOneRuleElseUnchanged ==
    out # None =>
        IF Cardinality(Hits(maps, arg)) = 1
        THEN out = Some(Mapped(maps[SetMin(Hits(maps, arg))], arg))
        ELSE out = Some(arg)

\* C4 as amended: apply_all returns the value mapped by the first rule, in
\* list order, whose source interval contains it (the only one when exactly
\* one does), and the value unchanged when no rule contains it.
C4_FirstContainingRuleElseUnchanged ==
    out # None =>
        IF Hits(maps, arg) = {}
        THEN out = Some(arg)
        ELSE out = Some(Mapped(maps[SetMin(Hits(maps, arg))], arg))

C4_Witness ==
    /\ out # None /\ out # Some(arg)
    /\ Hits(maps, arg) = {Len(maps)} /\ Len(maps) >= 2
    /\ maps[1].range_length > 0

\* C5: when several rules of a stage contain the value, apply_all returns what
\* the first of them in list order maps it to, whatever the later ones say.
C5_FirstMatchingRuleWins ==
    (out # None /\ Cardinality(Hits(maps, arg)) >= 2)
        => out = Some(Mapped(maps[SetMin(Hits(maps, arg))], arg))

C5_Witness ==
    /\ out # None
    /\ Cardinality(Hits(maps, arg)) >= 2
    /\ Mapped(maps[1], arg) # Mapped(maps[2], arg)
    /\ out = Some(Mapped(maps[1], arg))

\* C10 as claimed: a rule whose length is zero is rejected with an error and
\* never becomes part of a stage, so every rule of a constructed Almanac has a
\* range_length above 0.
C10_ZeroLengthRuleRejected ==
    (built # <<>> /\ built[1] = "Ok")
        => \A i \in StageIdx :
              \A k \in DOMAIN built[2][StageFields[i]] :
                  built[2][StageFields[i]][k].range_length > 0

(***************************************************************************)
(* usize on 64-bit words.  A word is four 16-bit limbs, most significant   *)
(* first, so that the sums of apply and of the seed range are computed at  *)
(* the width of the program.  `+` that leaves the 64-bit range panics in a *)
(* debug build and wraps in a release build; build says which one runs.    *)
(***************************************************************************)
Limb == 2^16

Word(n) == <<0, 0, 0, n>>

\* usize::MAX - n for a small n.
WordBelowMax(n) == <<Limb - 1, Limb - 1, Limb - 1, Limb - 1 - n>>

\* a < b on words.
lt(a, b) ==
    \E i \in 1..4 : a[i] < b[i] /\ \A j \in 1..(i - 1) : a[j] = b[j]

\* a + b: the wrapped word, and whether the sum left the 64-bit range.
add(a, b) ==
    LET s4 == a[4] + b[4]
        s3 == a[3] + b[3] + s4 \div Limb
        s2 == a[2] + b[2] + s3 \div Limb
        s1 == a[1] + b[1] + s2 \div Limb
    IN [word |-> <<s1 % Limb, s2 % Limb, s3 % Limb, s4 % Limb>>,
        overflow |-> s1 \div Limb > 0]

\* a - b: the wrapped word, and whether the difference went below zero.
sub(a, b) ==
    LET d4 == a[4] - b[4]
        d3 == a[3] - b[3] - (IF d4 < 0 THEN 1 ELSE 0)
        d2 == a[2] - b[2] - (IF d3 < 0 THEN 1 ELSE 0)
        d1 == a[1] - b[1] - (IF d2 < 0 THEN 1 ELSE 0)
    IN [word |-> <<d1 % Limb, d2 % Limb, d3 % Limb, d4 % Limb>>,
        overflow |-> d1 < 0]

Panicked == [overflow |-> TRUE, ret |-> <<"panic">>]
Returned(o, r) == [overflow |-> o, ret |-> <<"returned", r>>]

\* AlmanacMap::apply on words.  The second operand of || is evaluated only
\* when the first is false; value - source_range_start is evaluated first,
\* then + destination_range_start.
apply_usize(map, v, profile) ==
    IF lt(v, map.source_range_start)
    THEN Returned(FALSE, None)
    ELSE
        LET end == add(map.source_range_start, map.range_length)
        IN  IF end.overflow /\ profile = "debug"
            THEN Panicked
            ELSE IF ~lt(v, end.word)
            THEN Returned(end.overflow, None)
            ELSE
                LET off == sub(v, map.source_range_start)
                    y == add(off.word, map.destination_range_start)
                IN  IF (off.overflow \/ y.overflow) /\ profile = "debug"
                    THEN Panicked
                    ELSE Returned(end.overflow \/ off.overflow \/ y.overflow,
                                  Some(y.word))

\* start..start + length of convert_all_seeds_2 on words: the two ends of
\* the range the iterator walks (empty when the end is not above the start).
range_usize(start, length, profile) ==
    LET end == add(start, length)
    IN  IF end.overflow /\ profile = "debug"
        THEN Panicked
        ELSE Returned(end.overflow, <<start, end.word>>)

\* Words near both ends of the 64-bit range, and one in the middle.
Words == {Word(0), Word(1), <<2^15, 0, 0, 0>>, WordBelowMax(1), WordBelowMax(0)}

Profiles == {"debug", "release"}

InitWide ==
    /\ build \in Profiles
    /\ \E d \in Words, s \in Words, l \in Words : wmap = AlmanacMap(d, s, l)
    /\ wval \in Words
    /\ wlen \in Words
    /\ wapplied = <<>> /\ wranged = <<>>
    /\ almanac = Almanac(<<>>, NoRules)
    /\ IdleRun /\ IdleConvert /\ IdleStage /\ IdleParse
    /\ IdleImage /\ IdleExample /\ IdleDay08 /\ IdleDay04 /\ IdleMore

\* One call of AlmanacMap::apply(wmap, wval).
ApplyWide ==
    /\ wapplied = <<>>
    /\ wapplied' = <<apply_usize(wmap, wval, build)>>
    /\ UNCHANGED <<build, wmap, wval, wlen, wranged, offWide>>

\* The closure of flat_map on one (start, length) pair.
RangeWide ==
    /\ wranged = <<>>
    /\ wranged' = <<range_usize(wval, wlen, build)>>
    /\ UNCHANGED <<build, wmap, wval, wlen, wapplied, offWide>>

NextWide == ApplyWide \/ RangeWide

SpecWide == InitWide /\ [][NextWide]_vars

\* C11 as claimed: for every rule with a length above 0 and every 64-bit
\* value, apply and the seed-range expansion complete without arithmetic
\* overflow: source_range_start + range_length,
\* value - source_range_start + destination_range_start and start + length
\* all stay within the unsigned 64-bit range.
C11_NoOverflow ==
    /\ (wapplied # <<>> /\ wmap.range_length # Word(0))
           => ~wapplied[1].overflow
    /\ (wranged # <<>> /\ wlen # Word(0))
           => ~wranged[1].overflow

(***************************************************************************)
(* One stage over a set of values: every value of the set goes through     *)
(* apply_all of the same rule list, and the results are collected.         *)
(***************************************************************************)
ShortRuleLists == UNION {[1..n -> Rules] : n \in 0..2}
ValueSets == SUBSET (0..(MaxVal + MaxLen))

InitImage ==
    /\ maps \in ShortRuleLists
    /\ vin \in ValueSets
    /\ vout = <<>>
    /\ arg = 0 /\ probe = <<>> /\ out = None
    /\ almanac = Almanac(<<>>, NoRules)
    /\ IdleRun /\ IdleConvert /\ IdleParse
    /\ IdleWide /\ IdleExample /\ IdleDay08 /\ IdleDay04 /\ IdleMore

MapValues ==
    /\ vout = <<>>
    /\ vout' = <<{apply_all(maps, x) : x \in vin}>>
    /\ UNCHANGED <<maps, arg, probe, out, vin, offImage>>

SpecImage == InitImage /\ [][MapValues]_vars

\* Two half-open intervals [a1, a1 + l1) and [a2, a2 + l2) share a value.
Overlap(a1, l1, a2, l2) == l1 > 0 /\ l2 > 0 /\ a1 < a2 + l2 /\ a2 < a1 + l1

SourcesDisjoint(ms) ==
    \A i \in DOMAIN ms : \A j \in DOMAIN ms :
        i < j => ~Overlap(ms[i].source_range_start, ms[i].range_length,
                          ms[j].source_range_start, ms[j].range_length)

DestinationsDisjoint(ms) ==
    \A i \in DOMAIN ms : \A j \in DOMAIN ms :
        i < j => ~Overlap(ms[i].destination_range_start, ms[i].range_length,
                          ms[j].destination_range_start, ms[j].range_length)

\* y lies in the destination interval of rule m.
InDestination(m, y) ==
    m.destination_range_start <= y
    /\ y < m.destination_range_start + m.range_length

\* No value of S that passes through unchanged lies where a rule of ms sends
\* its source interval.
PassThroughClear(ms, S) ==
    \A y \in S : Hits(ms, y) = {} => \A i \in DOMAIN ms : ~InDestination(ms[i], y)

\* C12 as claimed: for any stage whose rules have pairwise non-overlapping
\* source intervals and any input set of values, the output set has as many
\* values as the input set, so no two distinct inputs map to the same output.
C12_StageConservesCount ==
    (vout # <<>> /\ SourcesDisjoint(maps))
        => Cardinality(vout[1]) = Cardinality(vin)

\* C12, amended: the output set never has more values than the input set; it
\* has as many when the source intervals are pairwise non-overlapping, the
\* destination intervals are pairwise non-overlapping too, and no input value
\* that passes through unchanged lies in a destination interval.
C12_StageNeverCreatesValues ==
    vout # <<>> =>
        /\ Cardinality(vout[1]) <= Cardinality(vin)
        /\ (SourcesDisjoint(maps) /\ DestinationsDisjoint(maps)
            /\ PassThroughClear(maps, vin))
               => Cardinality(vout[1]) = Cardinality(vin)

\* Two values of one rule's interval and one that passes through, all kept
\* apart.
C12_Witness ==
    /\ vout # <<>>
    /\ Len(maps) = 2
    /\ SourcesDisjoint(maps) /\ DestinationsDisjoint(maps)
    /\ PassThroughClear(maps, vin)
    /\ \E x \in vin, y \in vin, z \in vin :
          /\ x # y /\ Hits(maps, x) = {1} /\ Hits(maps, y) = {1}
          /\ Hits(maps, z) = {}
    /\ \E x \in vin : Hits(maps, x) = {2} /\ Mapped(maps[2], x) # x
    /\ Cardinality(vout[1]) = Cardinality(vin)

\* The seed list is one range [s, e) cut in two at m, s < m < e: the pairs
\* (s, m - s) and (m, e - m).
IsSplit(a) ==
    /\ Len(a.seeds) = 4
    /\ a.seeds[2] > 0 /\ a.seeds[4] > 0
    /\ a.seeds[3] = a.seeds[1] + a.seeds[2]

\* The same almanac with the uncut range (s, e - s) as its seed list.
Uncut(a) == [a EXCEPT !.seeds = <<a.seeds[1], a.seeds[2] + a.seeds[4]>>]

ValuesOf(xs) == {xs[i] : i \in DOMAIN xs}

\* C13: for any stages, any seed range [s, e) and any split point m with
\* s < m < e, the values converted for (s, m - s) together with (m, e - m) are
\* the values converted for the single range (s, e - s), and the minimum over
\* the two halves is the minimum over the whole range.
C13_SplitRangeSameValues ==
    (Part2Done /\ IsSplit(almanac)) =>
        /\ ValuesOf(fed) = ValuesOf(all_seeds(Uncut(almanac)))
        /\ Images(almanac, ValuesOf(fed))
               = ValuesOf(convert_all_seeds_2(Uncut(almanac)))
        /\ result = part2(Uncut(almanac))

\* A cut whose halves have different lengths, under a rule that maps a value
\* of the second half below every image of the first.
C13_Witness ==
    /\ Part2Done /\ IsSplit(almanac)
    /\ almanac.seeds[2] # almanac.seeds[4]
    /\ Len(fed) = 3
    /\ result[1] = "Ok"
    /\ result[2] < SetMin(Images(almanac, {almanac.seeds[1]}))
    /\ result = part2(Uncut(almanac))

(***************************************************************************)
(* main on the example almanac: part1, then part2, each printed.  The      *)
(* iterators are lazy: min() pulls one seed at a time, the seed goes       *)
(* through the seven apply_all calls of convert_seed, and its location is  *)
(* compared with the minimum so far.                                       *)
(***************************************************************************)
EXAMPLE ==
    Almanac(<<79, 14, 55, 13>>,
            <<  <<AlmanacMap(50, 98, 2), AlmanacMap(52, 50, 48)>>,
                <<AlmanacMap(0, 15, 37), AlmanacMap(37, 52, 2),
                  AlmanacMap(39, 0, 15)>>,
                <<AlmanacMap(49, 53, 8), AlmanacMap(0, 11, 42),
                  AlmanacMap(42, 0, 7), AlmanacMap(57, 7, 4)>>,
                <<AlmanacMap(88, 18, 7), AlmanacMap(18, 25, 70)>>,
                <<AlmanacMap(45, 77, 23), AlmanacMap(81, 45, 19),
                  AlmanacMap(68, 64, 13)>>,
                <<AlmanacMap(0, 69, 1), AlmanacMap(1, 0, 69)>>,
                <<AlmanacMap(60, 56, 37), AlmanacMap(56, 93, 4)>>  >>)

InitExample ==
    /\ almanac = EXAMPLE
    /\ xpc = "idle" /\ xtodo = <<>> /\ xseed = None /\ xstage = 0 /\ xvalue = 0
    /\ xacc = None /\ printed = <<>>
    /\ IdleRun /\ IdleConvert /\ IdleStage /\ IdleParse
    /\ IdleWide /\ IdleImage /\ IdleDay08 /\ IdleDay04 /\ IdleMore

\* main calls part1: the iterator over the seeds is built, nothing pulled yet.
ExPart1 ==
    /\ xpc = "idle"
    /\ xpc' = "part1"
    /\ xtodo' = almanac.seeds
    /\ xacc' = None
    /\ UNCHANGED <<almanac, xseed, xstage, xvalue, printed, offExample>>

\* min() pulls the next seed and convert_seed starts on it.
ExPull ==
    /\ xpc \in {"part1", "part2"}
    /\ xseed = None /\ xtodo # <<>>
    /\ xseed' = Some(Head(xtodo))
    /\ xvalue' = Head(xtodo)
    /\ xstage' = 0
    /\ xtodo' = Tail(xtodo)
    /\ UNCHANGED <<almanac, xpc, xacc, printed, offExample>>

\* The next apply_all call of convert_seed.
ExStage ==
    /\ xseed # None /\ xstage < Len(StageFields)
    /\ xvalue' = apply_all(almanac[StageFields[xstage + 1]], xvalue)
    /\ xstage' = xstage + 1
    /\ UNCHANGED <<almanac, xpc, xtodo, xseed, xacc, printed, offExample>>

\* convert_seed returned the location; min() keeps the smaller.
ExMin ==
    /\ xseed # None /\ xstage = Len(StageFields)
    /\ xacc' = min_step(xacc, xvalue)
    /\ xseed' = None
    /\ xstage' = 0
    /\ UNCHANGED <<almanac, xpc, xtodo, xvalue, printed, offExample>>

\* part1 returns and main prints it; on Ok main goes on to part2.
ExPrint1 ==
    /\ xpc = "part1" /\ xseed = None /\ xtodo = <<>>
    /\ printed' = Append(printed, ok_or(xacc, "InvalidAlmanac"))
    /\ IF xacc = None
       THEN xpc' = "end" /\ xtodo' = <<>>
       ELSE xpc' = "part2" /\ xtodo' = all_seeds(almanac)
    /\ xacc' = None
    /\ UNCHANGED <<almanac, xseed, xstage, xvalue, offExample>>

\* part2 returns and main prints it.
ExPrint2 ==
    /\ xpc = "part2" /\ xseed = None /\ xtodo = <<>>
    /\ printed' = Append(printed, ok_or(xacc, "InvalidAlmanac"))
    /\ xpc' = "end"
    /\ xacc' = None
    /\ UNCHANGED <<almanac, xtodo, xseed, xstage, xvalue, offExample>>

NextExample == ExPart1 \/ ExPull \/ ExStage \/ ExMin \/ ExPrint1 \/ ExPrint2

SpecExample == InitExample /\ [][NextExample]_vars

\* C14: on the example almanac the minimum mapped value over the four
\* individual seeds 79, 14, 55, 13 is 35 (part1), and the minimum over the
\* seed ranges (79, 14) and (55, 13) is 46 (part2).
C14_ExampleGives35And46 ==
    /\ Len(printed) >= 1 => printed[1] = Ok(35)
    /\ Len(printed) >= 2 => printed[2] = Ok(46)

C14_Witness ==
    /\ xpc = "end"
    /\ almanac.seeds = <<79, 14, 55, 13>>
    /\ printed = <<Ok(35), Ok(46)>>

\* Every integer of the seed ranges (79, 14) and (55, 13).
SeedsOfExampleRanges == (79..(79 + 14 - 1)) \cup (55..(55 + 13 - 1))

BothPrinted ==
    Len(printed) = 2 /\ printed[1][1] = "Ok" /\ printed[2][1] = "Ok"

\* C15 as claimed: on the example almanac the range-based minimum (seed ranges
\* (79, 14) and (55, 13)) is lower than the minimum obtained from the four
\* individual seeds 79, 14, 55, 13.
C15_RangeMinimumIsLower ==
    BothPrinted => printed[2][2] < printed[1][2]

\* C15, amended: on the example almanac the range-based minimum is higher
\* than the minimum over the four individual seeds, because 14 and 13 are
\* lengths on the range path and the ranges do not contain them; it is no
\* higher than the minimum over the two range starts 79 and 55.
C15_RangeMinimumIsHigher ==
    BothPrinted =>
        /\ printed[2][2] > printed[1][2]
        /\ printed[2][2]
               <= SetMin(Images(almanac, {PairStart(almanac, k) : k \in PairIdx(almanac)}))
        /\ printed[1][2]
               = SetMin(Images(almanac, {14, 13} \ SeedsOfExampleRanges))

C15_Witness ==
    /\ BothPrinted
    /\ printed[1][2] = ScalarFold(almanac, 13)
    /\ 13 \notin SeedsOfExampleRanges /\ 14 \notin SeedsOfExampleRanges
    /\ printed[2][2] > printed[1][2]

\* The rules of all seven stages together.
RECURSIVE CountRules(_, _)
CountRules(a, n) ==
    IF n = 0 THEN 0 ELSE Len(a[StageFields[n]]) + CountRules(a, n - 1)

RuleCount(a) == CountRules(a, Len(StageFields))

\* C16 as claimed: a seed range is evaluated by intervals split only at rule
\* boundaries, so the number of values converted for the seed ranges is
\* bounded by a function of the number of seed ranges and rules and does not
\* grow with the lengths: every range falls into at most 2 * rules + 1 pieces.
C16_ConversionsBoundedByRangesAndRules ==
    Part2Done =>
        Len(fed) <= Cardinality(PairIdx(almanac)) * (2 * RuleCount(almanac) + 1)

(***************************************************************************)
(* Day 8 (src/src/bin/day08.rs).  A node name is a sequence of characters; *)
(* a Map has the move list and the network, a function from the node name  *)
(* to the pair (left, right).  steps_to_end is one loop iteration per      *)
(* step; steps_to_end_2 walks the starting positions one after the other,  *)
(* in the order the HashMap's keys come out (any order), and folds the     *)
(* step counts with lcm.  A walk that never reaches a node ending in 'Z'   *)
(* does not return: the model stops it after MaxSteps steps.               *)
(***************************************************************************)
ends_with(name, c) == Len(name) > 0 /\ name[Len(name)] = c

\* The move list read one place too far.
get_move_at_shifted(m, steps) == m.moves[((steps + 1) % Len(m.moves)) + 1]

get_move_at(m, steps) == m.moves[(steps % Len(m.moves)) + 1]

next_position(m, current_move, current_position) ==
    IF current_move = "Left"
    THEN m.network[current_position][1]
    ELSE m.network[current_position][2]

RECURSIVE gcd(_, _)
gcd(a, b) == IF b = 0 THEN a ELSE gcd(b, a % b)

lcm(a, b) == IF a = 0 /\ b = 0 THEN 0 ELSE a * (b \div gcd(a, b))

AAA == <<"A", "A", "A">>
Nodes == {AAA, <<"1", "1", "A">>, <<"Z", "Z", "Z">>}
Moves == {"Left", "Right"}
MoveLists == UNION {[1..n -> Moves] : n \in 1..MaxMoves}

InitDay08 ==
    /\ \E ms \in MoveLists, nw \in [Nodes -> Nodes \X Nodes] :
           dmap = [moves |-> ms, network |-> nw]
    /\ dpc = "idle" /\ dstarts = {} /\ dstart = <<>> /\ dpos = <<>>
    /\ dsteps = 0 /\ dtaken = <<>> /\ dacc = 1 /\ dret = <<>>
    /\ almanac = Almanac(<<>>, NoRules)
    /\ IdleRun /\ IdleConvert /\ IdleStage /\ IdleParse
    /\ IdleWide /\ IdleImage /\ IdleExample /\ IdleDay04 /\ IdleMore

\* steps_to_end is entered with starting position p.
Enter(p) ==
    /\ dstart' = p
    /\ dpos' = p
    /\ dsteps' = 0

\* part1: steps_to_end(&map, "AAA").
D8Part1 ==
    /\ dpc = "idle"
    /\ dpc' = "part1"
    /\ Enter(AAA)
    /\ UNCHANGED <<dmap, dstarts, dtaken, dacc, dret, offDay08>>

\* steps_to_end called on its own with any node of the network.
D8Call ==
    /\ dpc = "idle"
    /\ dpc' = "call"
    /\ \E p \in DOMAIN dmap.network : Enter(p)
    /\ UNCHANGED <<dmap, dstarts, dtaken, dacc, dret, offDay08>>

\* part2: the starting positions are the keys ending in 'A'; fold starts at 1.
D8Part2 ==
    /\ dpc = "idle"
    /\ dpc' = "part2"
    /\ dstarts' = {k \in DOMAIN dmap.network : ends_with(k, "A")}
    /\ dacc' = 1
    /\ UNCHANGED <<dmap, dstart, dpos, dsteps, dtaken, dret, offDay08>>

\* steps_to_end_2 takes the next starting position from the key iterator.
D8NextStart ==
    /\ dpc = "part2" /\ dret = <<>>
    /\ dstart = <<>> /\ dstarts # {}
    /\ \E p \in dstarts : Enter(p) /\ dstarts' = dstarts \ {p}
    /\ UNCHANGED <<dmap, dpc, dtaken, dacc, dret, offDay08>>

\* One iteration of the while loop of steps_to_end.
D8Step ==
    /\ dstart # <<>> /\ dret = <<>>
    /\ ~ends_with(dpos, "Z")
    /\ dsteps < MaxSteps
    /\ dpos' = next_position(dmap, get_move_at(dmap, dsteps), dpos)
    /\ dsteps' = dsteps + 1
    /\ UNCHANGED <<dmap, dpc, dstarts, dstart, dtaken, dacc, dret, offDay08>>

\* The loop ends; part1 (or the caller) gets steps.
D8Return1 ==
    /\ dpc \in {"part1", "call"} /\ dret = <<>>
    /\ dstart # <<>> /\ ends_with(dpos, "Z")
    /\ dtaken' = Append(dtaken, <<dstart, dsteps>>)
    /\ dret' = <<dsteps>>
    /\ UNCHANGED <<dmap, dpc, dstarts, dstart, dpos, dsteps, dacc, offDay08>>

\* The loop ends inside steps_to_end_2; fold takes lcm(acc, steps).
D8Fold ==
    /\ dpc = "part2" /\ dret = <<>>
    /\ dstart # <<>> /\ ends_with(dpos, "Z")
    /\ dtaken' = Append(dtaken, <<dstart, dsteps>>)
    /\ dacc' = lcm(dacc, dsteps)
    /\ dstart' = <<>>
    /\ UNCHANGED <<dmap, dpc, dstarts, dpos, dsteps, dret, offDay08>>

\* No starting position is left; part2 returns the folded value.
D8Return2 ==
    /\ dpc = "part2" /\ dret = <<>>
    /\ dstart = <<>> /\ dstarts = {}
    /\ dret' = <<dacc>>
    /\ UNCHANGED <<dmap, dpc, dstarts, dstart, dpos, dsteps, dtaken, dacc, offDay08>>

NextDay08 ==
    D8Part1 \/ D8Call \/ D8Part2 \/ D8NextStart \/ D8Step \/ D8Return1
        \/ D8Fold \/ D8Return2

SpecDay08 == InitDay08 /\ [][NextDay08]_vars

\* The node reached from p after the first n moves of the move list repeated
\* cyclically: move i (from 0) is the move at place i mod len of the list.
RECURSIVE PosAfter(_, _, _)
PosAfter(m, p, n) ==
    IF n = 0 THEN p
    ELSE LET q == PosAfter(m, p, n - 1)
             i == ((n - 1) % Len(m.moves)) + 1
         IN  IF m.moves[i] = "Left" THEN m.network[q][1] ELSE m.network[q][2]

\* C17: steps_to_end returns the least n >= 0 such that the node reached from
\* the starting node after the first n moves of the cyclically repeated move
\* list has a name ending in 'Z'; it returns 0 when the starting node itself
\* ends in 'Z'.
C17_StepsToEndIsLeast ==
    \A k \in DOMAIN dtaken :
        LET p == dtaken[k][1]
            n == dtaken[k][2]
        IN  /\ ends_with(PosAfter(dmap, p, n), "Z")
            /\ \A j \in 0..(n - 1) : ~ends_with(PosAfter(dmap, p, j), "Z")
            /\ ends_with(p, "Z") => n = 0

\* A walk from "AAA" that goes through the move list more than once.
C17_Witness ==
    /\ dpc = "part1" /\ dret # <<>>
    /\ Len(dmap.moves) = 2 /\ dmap.moves[1] # dmap.moves[2]
    /\ dret[1] > Len(dmap.moves) + 1
    /\ dtaken = <<<<AAA, dret[1]>>>>

\* A call that starts on a node ending in 'Z'.
C17_WitnessZero ==
    dpc = "call" /\ dret = <<0>> /\ ends_with(dstart, "Z")

Starts(m) == {k \in DOMAIN m.network : ends_with(k, "A")}

\* After n steps every walker is on a node ending in 'Z'.
AllOnZ(m, n) == \A p \in Starts(m) : ends_with(PosAfter(m, p, n), "Z")

\* C18 as claimed: part2 returns the least number of steps after which all
\* walkers, one started on every node whose name ends in 'A' and all
\* following the same cyclic move list, are at the same time on nodes whose
\* names end in 'Z'.
C18_Part2IsLeastSimultaneous ==
    (dpc = "part2" /\ dret # <<>>) =>
        /\ AllOnZ(dmap, dret[1])
        /\ \A j \in 0..(dret[1] - 1) : ~AllOnZ(dmap, j)

(***************************************************************************)
(* Day 4, part2 (src/src/bin/day04.rs).  A card has its id and its two     *)
(* number sets; copies is a map from card id to the copies awarded to it   *)
(* so far.  One action is one iteration of the loop over the cards, the    *)
(* inner loop over 1..=matches included.                                   *)
(***************************************************************************)
ScratchCard(id, left, right) ==
    [id |-> id, left_numbers |-> left, right_numbers |-> right]

count_matches(card) == Cardinality(card.left_numbers \cap card.right_numbers)

\* copies.get(&k)
get(m, k) == IF k \in DOMAIN m THEN Some(m[k]) ELSE None

\* The inner loop with 1..matches in place of 1..=matches.
award_exclusive(m, id, matches, multiplier) ==
    LET won == (id + 1)..(id + matches - 1)
    IN  [k \in DOMAIN m \cup won |->
            IF k \in won THEN unwrap_or(get(m, k), 0) + multiplier ELSE m[k]]

\* for i in 1..=matches: copies[id + i] is raised by multiplier, or inserted
\* as multiplier.
award(m, id, matches, multiplier) ==
    LET won == (id + 1)..(id + matches)
    IN  [k \in DOMAIN m \cup won |->
            IF k \in won THEN unwrap_or(get(m, k), 0) + multiplier ELSE m[k]]

Winning == {1, 2}
Draws == {{3}, {1}, {1, 3}, {1, 2}}
Cards == {ScratchCard(i, Winning, r) : i \in 1..MaxId, r \in Draws}
CardLists == UNION {[1..n -> Cards] : n \in 0..MaxCards}

InitDay04 ==
    /\ cards \in CardLists
    /\ cidx = 0 /\ copies = EmptyMap /\ total_cards = 0
    /\ mults = <<>> /\ cret = <<>>
    /\ almanac = Almanac(<<>>, NoRules)
    /\ IdleRun /\ IdleConvert /\ IdleStage /\ IdleParse
    /\ IdleWide /\ IdleImage /\ IdleExample /\ IdleDay08 /\ IdleMore

\* One iteration of `for card in cards`.
D4Card ==
    /\ cidx < Len(cards)
    /\ LET card == cards[cidx + 1]
           multiplier == 1 + unwrap_or(get(copies, card.id), 0)
       IN  /\ total_cards' = total_cards + multiplier
           /\ copies' = award(copies, card.id, count_matches(card), multiplier)
           /\ mults' = Append(mults, multiplier)
    /\ cidx' = cidx + 1
    /\ UNCHANGED <<cards, cret, offDay04>>

\* Ok(total_cards)
D4Return ==
    /\ cidx = Len(cards) /\ cret = <<>>
    /\ cret' = <<total_cards>>
    /\ UNCHANGED <<cards, cidx, copies, total_cards, mults, offDay04>>

NextDay04 == D4Card \/ D4Return

SpecDay04 == InitDay04 /\ [][NextDay04]_vars

RECURSIVE SumSeq(_)
SumSeq(xs) == IF xs = <<>> THEN 0 ELSE Head(xs) + SumSeq(Tail(xs))

\* The instance counts of the cards before the k-th that win a copy of it:
\* the cards c with c.id < id <= c.id + matches(c), taken up to position j.
RECURSIVE WonFrom(_, _)
WonFrom(k, j) ==
    IF j = 0 THEN 0
    ELSE WonFrom(k, j - 1)
         + (IF cards[j].id < cards[k].id
               /\ cards[k].id <= cards[j].id + count_matches(cards[j])
            THEN mults[j] ELSE 0)

\* C19: processing the cards in input order, each card's instance count is 1
\* plus the sum of the instance counts of every earlier card c with
\* c.id < id <= c.id + matches(c); after each card total_cards is the sum of
\* the instance counts of the cards processed so far, and copies awarded to
\* ids beyond the last card are never counted in the result.
C19_InstanceCounts ==
    /\ Len(mults) = cidx
    /\ \A k \in 1..cidx : mults[k] = 1 + WonFrom(k, k - 1)
    /\ total_cards = SumSeq(mults)
    /\ cret # <<>> => cret[1] = SumSeq(mults) /\ Len(mults) = Len(cards)

\* Three cards in id order, each winning copies of the next ones, the last
\* one winning a copy of a card that does not exist.
C19_Witness ==
    /\ cret = <<7>>
    /\ mults = <<1, 2, 4>>
    /\ \A k \in 1..3 : cards[k].id = k
    /\ \E k \in DOMAIN copies : k > cards[Len(cards)].id

\* C20: each value is subject to at most one rule per stage: when a rule of a
\* stage maps value x to y, apply_all returns y even if y (or x) lies inside
\* the source interval of another rule of the same stage; the mapped result
\* is never fed to a further rule of that stage.
C20_AtMostOneRulePerStage ==
    (out # None /\ Hits(maps, arg) # {}) =>
        LET i == SetMin(Hits(maps, arg))
            y == Mapped(maps[i], arg)
        IN  /\ out = Some(y)
            /\ \A j \in DOMAIN maps :
                  (j # i /\ Contains(maps[j], y) /\ Mapped(maps[j], y) # y)
                      => out # Some(Mapped(maps[j], y))

\* The first rule maps the value into the source interval of the second,
\* which would move it again.
C20_Witness ==
    /\ out # None /\ Len(maps) = 2
    /\ Hits(maps, arg) = {1}
    /\ Contains(maps[2], Mapped(maps[1], arg))
    /\ Mapped(maps[2], Mapped(maps[1], arg)) # Mapped(maps[1], arg)
    /\ out = Some(Mapped(maps[1], arg))

(***************************************************************************)
(* The interval propagation of the specification (sections 4.1 and 4.2):   *)
(* RangeMapper.apply maps a list of half-open intervals through one stage, *)
(* cutting an interval only where a rule's source interval begins or ends; *)
(* Pipeline.run folds it over the stages and answers the least start.  The *)
(* repository has no counterpart of it: these definitions are written from *)
(* the specification, and the claims compare the program with them.        *)
(***************************************************************************)
Interval(s, e) == [start |-> s, end |-> e]

Max2(a, b) == IF a > b THEN a ELSE b
Min2(a, b) == IF a < b THEN a ELSE b

\* One interval against the rules in iteration order: the part a rule's
\* source interval covers is moved by the rule's offset and emitted, the parts
\* left and right of it go on to the remaining rules, and what no rule covers
\* passes through.
\* The interval value by value: one unit interval for every value.
map_interval_units(rules, iv) ==
    [i \in 1..(iv.end - iv.start) |->
        Interval(apply_all(rules, iv.start + i - 1),
                 apply_all(rules, iv.start + i - 1) + 1)]

RECURSIVE map_interval(_, _)
map_interval(rules, iv) ==
    IF rules = <<>> THEN <<iv>>
    ELSE
        LET r == Head(rules)
            rs == r.source_range_start
            lo == Max2(iv.start, rs)
            hi == Min2(iv.end, rs + r.range_length)
        IN  IF lo < hi
            THEN (IF iv.start < lo
                  THEN map_interval(Tail(rules), Interval(iv.start, lo))
                  ELSE <<>>)
                 \o <<Interval(lo - rs + r.destination_range_start,
                               hi - rs + r.destination_range_start)>>
                 \o (IF hi < iv.end
                     THEN map_interval(Tail(rules), Interval(hi, iv.end))
                     ELSE <<>>)
            ELSE map_interval(Tail(rules), iv)

\* RangeMapper.apply: every input interval on its own, the results together.
RECURSIVE RangeMapper_apply(_, _)
RangeMapper_apply(rules, intervals) ==
    IF intervals = <<>> THEN <<>>
    ELSE map_interval(rules, Head(intervals))
         \o RangeMapper_apply(rules, Tail(intervals))

\* The fold of Pipeline.run over the first n stages.
RECURSIVE Pipeline_fold(_, _, _)
Pipeline_fold(a, seeds, n) ==
    IF n = 0 THEN seeds
    ELSE RangeMapper_apply(a[StageFields[n]], Pipeline_fold(a, seeds, n - 1))

\* Pipeline.run: the least start of the final intervals.
Pipeline_run(a, seeds) ==
    LET final == Pipeline_fold(a, seeds, Len(StageFields))
    IN  IF final = <<>> THEN Err("EmptyInput")
        ELSE Ok(SetMin({final[i].start : i \in DOMAIN final}))

\* The seed ranges of the almanac as intervals.
SeedIntervals(a) ==
    [k \in PairIdx(a) |-> Interval(PairStart(a, k), PairStart(a, k) + PairLength(a, k))]

\* part2 on almanacs whose rules sit in the first two stages, two in one stage
\* or one in each, over one long seed range or two short ones.
RangeStages ==
    {NoRules} \cup
    {[[NoRules EXCEPT ![p] = <<r1>>] EXCEPT ![q] = @ \o <<r2>>] :
        p \in 1..2, q \in 1..2, r1 \in Rules, r2 \in Rules}
RangeSeeds ==
    {<<s, l>> : s \in Vals, l \in 1..(MaxLen + 2)}
    \cup {<<s1, l1, s2, l2>> : s1 \in Vals, l1 \in 1..2, s2 \in Vals, l2 \in 1..2}

InitRanges ==
    /\ \E s \in RangeSeeds, st \in RangeStages : almanac = Almanac(s, st)
    /\ IdleRun /\ IdleConvert /\ IdleStage /\ IdleParse /\ IdleLater

SpecRanges == InitRanges /\ [][Part2]_vars

NonOverlappingStages(a) ==
    \A i \in StageIdx : SourcesDisjoint(a[StageFields[i]])

\* C21: for any stages with non-overlapping rules and any non-empty seed
\* ranges, the minimum of the per-value conversion computed by the program
\* (convert_all_seeds_2, then min) equals the least start among the final
\* intervals of the interval propagation.
C21_MinimumEqualsLeastIntervalStart ==
    (Part2Done /\ NonOverlappingStages(almanac)
     /\ \A k \in PairIdx(almanac) : PairLength(almanac, k) > 0)
        => result = Pipeline_run(almanac, SeedIntervals(almanac))

\* A seed range cut by a rule, the least location coming from a piece that
\* does not hold the start of the range.
C21_Witness ==
    /\ Part2Done /\ NonOverlappingStages(almanac)
    /\ Len(almanac.seeds) = 2 /\ almanac.seeds[2] >= 3
    /\ Len(almanac.seed_to_soil_maps) = 2
    /\ Len(Pipeline_fold(almanac, SeedIntervals(almanac), Len(StageFields))) >= 3
    /\ result[1] = "Ok"
    /\ result[2] < ScalarFold(almanac, almanac.seeds[1])
    /\ result = Pipeline_run(almanac, SeedIntervals(almanac))

(***************************************************************************)
(* One stage of the interval propagation on its own: one interval, or two  *)
(* that do not overlap, through a list of up to two rules.                 *)
(***************************************************************************)
Points == 0..(MaxVal + MaxLen)
IntervalLists ==
    {<<Interval(a, b)>> : a \in Points, b \in Points} \cup
    {<<Interval(a, b), Interval(c, d)>> :
        a \in Points, b \in Points, c \in Points, d \in Points}

WellFormed(xs) ==
    /\ \A i \in DOMAIN xs : xs[i].start < xs[i].end
    /\ Len(xs) = 2 => xs[1].end <= xs[2].start

InitMapper ==
    /\ maps \in ShortRuleLists
    /\ ivs \in {xs \in IntervalLists : WellFormed(xs)}
    /\ ovs = <<>>
    /\ arg = 0 /\ probe = <<>> /\ out = None
    /\ almanac = Almanac(<<>>, NoRules)
    /\ IdleRun /\ IdleConvert /\ IdleParse
    /\ IdleWide /\ IdleImage /\ IdleExample /\ IdleDay08 /\ IdleDay04
    /\ IdleDay07 /\ IdleDay09

\* RangeMapper.apply(stage, input).
MapIntervals ==
    /\ ovs = <<>>
    /\ ovs' = <<RangeMapper_apply(maps, ivs)>>
    /\ UNCHANGED <<maps, ivs, offMapper>>

SpecMapper == InitMapper /\ [][MapIntervals]_vars

\* C22 as claimed: applying one stage by interval splitting to input_count
\* input intervals with rule_count rules yields at most
\* input_count * rule_count output intervals, whatever the endpoints (read
\* for stages that have a rule: without rules the bound would be zero).
C22_AtMostInputsTimesRules ==
    (ovs # <<>> /\ Len(maps) >= 1) => Len(ovs[1]) <= Len(ivs) * Len(maps)

\* C22, amended: every input interval is cut at most twice per rule, so one
\* stage yields at most input_count * (2 * rule_count + 1) output intervals,
\* and never fewer than input_count, whatever the endpoints.
C22_AtMostTwoCutsPerRule ==
    ovs # <<>> =>
        /\ Len(ovs[1]) <= Len(ivs) * (2 * Len(maps) + 1)
        /\ Len(ovs[1]) >= Len(ivs)

\* One rule inside one interval: three pieces.
C22_Witness ==
    /\ ovs # <<>> /\ Len(ivs) = 1 /\ Len(maps) = 1
    /\ ivs[1].start < maps[1].source_range_start
    /\ maps[1].source_range_start + maps[1].range_length < ivs[1].end
    /\ Len(ovs[1]) = 3

----------------------------------------------------------------------------
(* The structure of an almanac text, read off the text alone: where each   *)
(* header has to stand, and the first place where the structure breaks.    *)

\* The first line from i on that is empty, or the line after the last one.
RECURSIVE BlockEnd(_, _)
BlockEnd(inp, i) ==
    IF i > Len(inp) \/ inp[i] = <<>> THEN i ELSE BlockEnd(inp, i + 1)

\* The line on which header k has to stand: the third line, then the line
\* after the empty line that ends the block before.
RECURSIVE HeaderPos(_, _)
HeaderPos(inp, k) ==
    IF k = 1 THEN 3 ELSE BlockEnd(inp, HeaderPos(inp, k - 1) + 1) + 1

\* The headers that are missing, misspelled or out of order.
FaultyHeaders(inp) ==
    {k \in DOMAIN Headers :
        HeaderPos(inp, k) > Len(inp) \/ inp[HeaderPos(inp, k)] # Headers[k]}

HeaderFault(inp) == FaultyHeaders(inp) # {}

FirstLineFault(inp) == Len(inp) < 1 \/ strip_prefix(inp[1], SeedsPrefix) = None
SecondLineFault(inp) == Len(inp) < 2 \/ inp[2] # <<>>

\* The line of the first break of the structure, Len(inp) + 1 or more if the
\* structure is whole.
FirstFault(inp) ==
    IF FirstLineFault(inp) THEN 1
    ELSE IF SecondLineFault(inp) THEN 2
    ELSE IF HeaderFault(inp) THEN HeaderPos(inp, SetMin(FaultyHeaders(inp)))
    ELSE Len(inp) + 1

StructuralFault(inp) ==
    FirstLineFault(inp) \/ SecondLineFault(inp) \/ HeaderFault(inp)

\* The lines before the first break that hold numbers: the seeds line and
\* the rows of the blocks.
ContentLines(inp) ==
    {i \in DOMAIN inp :
        /\ i < FirstFault(inp)
        /\ i # 2
        /\ inp[i] # <<>>
        /\ \A k \in DOMAIN Headers : i # HeaderPos(inp, k)}

LineResult(inp, i) ==
    IF i = 1 THEN try_collect_seeds(split(strip_prefix(inp[1], SeedsPrefix)[1], " "))
    ELSE from_str(inp[i])

BadContent(inp) == {i \in ContentLines(inp) : LineResult(inp, i)[1] = "Err"}

\* C23 as claimed: a missing, misspelled or out-of-order header makes
\* try_from return InvalidAlmanac.
C23_HeaderFaultIsInvalidAlmanac ==
    (ppc = "returned" /\ HeaderFault(input)) => built = Err("InvalidAlmanac")

\* C23: the structure is validated in order.  A first line without the seeds
\* prefix, a second line that is not empty, or a missing, misspelled or
\* out-of-order header makes try_from fail, so that no Almanac is built; the
\* error is InvalidAlmanac unless a seed value or a rule row on an earlier
\* line fails to parse, and then it is the error of the first such line.
C23_StructureValidatedInOrder ==
    (ppc = "returned" /\ StructuralFault(input))
        => /\ built[1] = "Err"
           /\ built = IF BadContent(input) = {} THEN Err("InvalidAlmanac")
                      ELSE LineResult(input, SetMin(BadContent(input)))

\* A parsed row, then a later header that does not match.
C23_Witness ==
    /\ ppc = "returned"
    /\ ~FirstLineFault(input) /\ ~SecondLineFault(input)
    /\ SetMin(FaultyHeaders(input) \cup {Len(Headers) + 1}) \in 2..Len(Headers)
    /\ HeaderPos(input, SetMin(FaultyHeaders(input) \cup {Len(Headers) + 1})) <= Len(input)
    /\ \E i \in 1..Len(pmaps) : pmaps[i] # <<>>
    /\ built = Err("InvalidAlmanac")

----------------------------------------------------------------------------
(* A seed list with an odd number of values. *)

OddSeeds(a) == Len(a.seeds) % 2 = 1

RECURSIVE SumOfLengths(_, _)
SumOfLengths(a, k) ==
    IF k = 0 THEN 0 ELSE PairLength(a, k) + SumOfLengths(a, k - 1)

\* C24 as claimed: on an odd seed list part2 returns the minimum over the
\* complete pairs without an error, and InvalidAlmanac on a single value.
C24_OddListNeverFailsBeyondOneValue ==
    (Part2Done /\ OddSeeds(almanac))
        => IF Len(almanac.seeds) = 1
           THEN result = Err("InvalidAlmanac")
           ELSE /\ result[1] = "Ok"
                /\ result[2] = SetMin(Images(almanac, SeedsOfRanges(almanac)))

\* C24: on an odd seed list the range path converts the values of the
\* complete (start, length) pairs and nothing for the value left over; part2
\* returns the minimum over those pairs, and InvalidAlmanac when they hold no
\* value, which is so for a single value and when every pair has length 0.
C24_LastUnpairedValueIgnored ==
    (Part2Done /\ OddSeeds(almanac))
        => /\ {fed[i] : i \in DOMAIN fed} = SeedsOfRanges(almanac)
           /\ Len(fed) = SumOfLengths(almanac, Len(almanac.seeds) \div 2)
           /\ result = IF SeedsOfRanges(almanac) = {}
                       THEN Err("InvalidAlmanac")
                       ELSE Ok(SetMin(Images(almanac, SeedsOfRanges(almanac))))
           /\ Len(almanac.seeds) = 1 => result = Err("InvalidAlmanac")

\* Three values, and the one left over would have given a lower result.
C24_Witness ==
    /\ Part2Done /\ Len(almanac.seeds) = 3
    /\ result[1] = "Ok"
    /\ almanac.seeds[3] \notin SeedsOfRanges(almanac)
    /\ ScalarFold(almanac, almanac.seeds[3]) < result[2]

----------------------------------------------------------------------------
(* Day 7: the type of a hand, without and with jokers.  A hand is the       *)
(* sequence of its five cards, a card its label.                           *)

\* enum Card, weakest first in the order of its declaration.
Card == <<"2", "3", "4", "5", "6", "7", "8", "9", "T", "J", "Q", "K", "A">>
CardSet == {Card[i] : i \in DOMAIN Card}

\* enum HandType, weakest first: the derived order compares positions.
HandType ==
    <<"HighCard", "OnePair", "TwoPair", "ThreeOfAKind", "FullHouse",
      "FourOfAKind", "FiveOfAKind">>
HandTypeSet == {HandType[i] : i \in DOMAIN HandType}
Rank(type) == CHOOSE i \in DOMAIN HandType : HandType[i] = type

\* Iterator::counts(): how often each card of the hand occurs.
counts_of(h) ==
    [c \in {h[i] : i \in DOMAIN h} |-> Cardinality({i \in DOMAIN h : h[i] = c})]

\* The values of a counts map under keys, in ascending order.
RECURSIVE sorted(_, _)
sorted(counts, keys) ==
    IF keys = {} THEN <<>>
    ELSE LET k == CHOOSE k \in keys : \A j \in keys : counts[k] <= counts[j]
         IN  <<counts[k]>> \o sorted(counts, keys \ {k})

match_counts(vals) ==
    CASE vals = <<5>> -> "FiveOfAKind"
      [] vals = <<1, 4>> -> "FourOfAKind"
      [] vals = <<2, 3>> -> "FullHouse"
      [] vals = <<1, 1, 3>> -> "ThreeOfAKind"
      [] vals = <<1, 2, 2>> -> "TwoPair"
      [] vals = <<1, 1, 1, 2>> -> "OnePair"
      [] vals = <<1, 1, 1, 1, 1>> -> "HighCard"
      [] OTHER -> "panic"

\* get_hand_type_from_counts that keeps the counts of zero.
get_hand_type_from_counts_unfiltered(counts) ==
    match_counts(sorted(counts, DOMAIN counts))

get_hand_type_from_counts(counts) ==
    match_counts(sorted(counts, {k \in DOMAIN counts : counts[k] > 0}))

get_hand_type_1(h) == get_hand_type_from_counts(counts_of(h))

\* The closure of get_hand_type_2 on one tuple v of the product: for each
\* card of v one joker less and one of that card more.  A joker count of 0
\* cannot be lowered: the closure yields no counts.
RECURSIVE move_jokers(_, _)
move_jokers(counts, v) ==
    IF v = <<>> THEN Some(counts)
    ELSE IF counts["J"] = 0 THEN None
    ELSE LET less == [counts EXCEPT !["J"] = @ - 1]
             more == [less EXCEPT ![Head(v)] = @ + 1]
         IN  move_jokers(more, Tail(v))

\* (0..jokers).map(|_| counts.keys()).multi_cartesian_product()
multi_cartesian_product(jokers, keys) == [1..jokers -> keys]

\* Iterator::max() on hand types, behind the calls that produce them: a call
\* that panics ends the whole.
max_type(types) ==
    IF \E x \in types : x \notin HandTypeSet THEN "panic"
    ELSE CHOOSE x \in types : \A y \in types : Rank(y) <= Rank(x)

get_hand_type_2(h) ==
    LET counts == counts_of(h)
    IN  IF "J" \in DOMAIN counts
        THEN LET moved == {move_jokers(counts, v) :
                              v \in multi_cartesian_product(counts["J"], DOMAIN counts)}
             IN  max_type({IF m = None THEN "panic"
                           ELSE get_hand_type_from_counts(m[1]) : m \in moved})
        ELSE get_hand_type_from_counts(counts)

MaxLabels == 6
HandSize == 5

\* The labels hands are drawn from, the joker first.
LabelOrder == <<"J", "Q", "2", "A", "3", "4", "5", "6", "7", "8", "9", "T", "K">>
HandLabels == {LabelOrder[i] : i \in 1..MaxLabels}
Hands == [1..HandSize -> HandLabels]

InitDay07 ==
    /\ hand \in Hands
    /\ type1 = <<>> /\ type2 = <<>>
    /\ almanac = Almanac(<<>>, NoRules)
    /\ IdleRun /\ IdleConvert /\ IdleStage /\ IdleParse
    /\ IdleWide /\ IdleImage /\ IdleExample /\ IdleDay08 /\ IdleDay04
    /\ IdleMapper /\ IdleDay09

HandType1 ==
    /\ type1 = <<>>
    /\ type1' = <<get_hand_type_1(hand)>>
    /\ UNCHANGED <<hand, type2, offDay07>>

HandType2 ==
    /\ type2 = <<>>
    /\ type2' = <<get_hand_type_2(hand)>>
    /\ UNCHANGED <<hand, type1, offDay07>>

NextDay07 == HandType1 \/ HandType2

SpecDay07 == InitDay07 /\ [][NextDay07]_vars

\* The type of five cards by the number of distinct labels and the largest
\* number of equal ones.
Classify(h) ==
    LET labels == {h[i] : i \in DOMAIN h}
        most == CHOOSE n \in 1..Len(h) :
                    /\ \E c \in labels : Cardinality({i \in DOMAIN h : h[i] = c}) = n
                    /\ \A c \in labels : Cardinality({i \in DOMAIN h : h[i] = c}) <= n
    IN  CASE Cardinality(labels) = 1 -> "FiveOfAKind"
          [] Cardinality(labels) = 2 -> IF most = 4 THEN "FourOfAKind" ELSE "FullHouse"
          [] Cardinality(labels) = 3 -> IF most = 3 THEN "ThreeOfAKind" ELSE "TwoPair"
          [] Cardinality(labels) = 4 -> "OnePair"
          [] OTHER -> "HighCard"

JokerPositions(h) == {i \in DOMAIN h : h[i] = "J"}

\* The hands obtained by replacing each joker by any of the 13 labels.
Replacements(h) ==
    {[i \in DOMAIN h |-> IF h[i] = "J" THEN r[i] ELSE h[i]] :
        r \in [JokerPositions(h) -> CardSet]}

\* C25: get_hand_type_2 returns a hand type and never panics; it is the
\* strongest type among the hands obtained by replacing each joker by any of
\* the 13 labels, and it is never weaker than get_hand_type_1 of the hand.
C25_JokersGiveStrongestType ==
    type2 # <<>> =>
        /\ type2[1] \in HandTypeSet
        /\ \E r \in Replacements(hand) : Classify(r) = type2[1]
        /\ \A r \in Replacements(hand) : Rank(Classify(r)) <= Rank(type2[1])
        /\ type1 # <<>> => /\ type1[1] \in HandTypeSet
                           /\ Rank(type1[1]) <= Rank(type2[1])

\* QJJQ2: two pairs without jokers, four of a kind with them.
C25_Witness ==
    /\ hand = <<"Q", "J", "J", "Q", "2">>
    /\ type1 = <<"TwoPair">>
    /\ type2 = <<"FourOfAKind">>

\* Five jokers are five of a kind.
C25_WitnessAllJokers ==
    /\ hand = <<"J", "J", "J", "J", "J">>
    /\ type2 = <<"FiveOfAKind">>

----------------------------------------------------------------------------
(* Day 9: Sequence(Vec<i64>).  An i64 is a 64-bit word in two's complement; *)
(* `+` and `-` that leave the signed range panic in a debug build and wrap *)
(* in a release build.                                                     *)

\* The i64 of a small natural number, and of its negative.
I64(n) == Word(n)
NegI64(n) == IF n = 0 THEN Word(0) ELSE WordBelowMax(n - 1)

I64_MIN == <<2^15, 0, 0, 0>>
I64_MAX == <<2^15 - 1, Limb - 1, Limb - 1, Limb - 1>>

is_negative(w) == w[1] >= 2^15

\* a + b on i64: the wrapped word, and whether the sum left the signed range.
add_i64(a, b) ==
    LET w == add(a, b).word
    IN  [word |-> w,
         overflow |-> is_negative(a) = is_negative(b) /\ is_negative(w) # is_negative(a)]

\* a - b on i64.
sub_i64(a, b) ==
    LET w == sub(a, b).word
    IN  [word |-> w,
         overflow |-> is_negative(a) # is_negative(b) /\ is_negative(w) # is_negative(a)]

Panic == <<"panic">>
Value(w) == <<"returned", w>>

\* tuple_windows().map(|(a, b)| b - a).collect()
create_diff_sequence(seq, profile) ==
    LET diffs == [i \in 1..(Len(seq) - 1) |-> sub_i64(seq[i + 1], seq[i])]
    IN  IF profile = "debug" /\ \E i \in DOMAIN diffs : diffs[i].overflow
        THEN Panic
        ELSE Value([i \in DOMAIN diffs |-> diffs[i].word])

is_zero(seq) == \A i \in DOMAIN seq : seq[i] = I64(0)

RECURSIVE extrapolate(_, _)
extrapolate(seq, profile) ==
    IF is_zero(seq) THEN Value(I64(0))
    ELSE LET last == seq[Len(seq)]
             diff == create_diff_sequence(seq, profile)
         IN  IF diff = Panic THEN Panic
             ELSE LET rest == extrapolate(diff[2], profile)
                  IN  IF rest = Panic THEN Panic
                      ELSE LET sum == add_i64(last, rest[2])
                           IN  IF profile = "debug" /\ sum.overflow THEN Panic
                               ELSE Value(sum.word)

RECURSIVE extrapolate_backwards(_, _)
extrapolate_backwards(seq, profile) ==
    IF is_zero(seq) THEN Value(I64(0))
    ELSE LET first == seq[1]
             diff == create_diff_sequence(seq, profile)
         IN  IF diff = Panic THEN Panic
             ELSE LET rest == extrapolate_backwards(diff[2], profile)
                  IN  IF rest = Panic THEN Panic
                      ELSE LET difference == sub_i64(first, rest[2])
                           IN  IF profile = "debug" /\ difference.overflow THEN Panic
                               ELSE Value(difference.word)

MaxSeqLen == 3

\* Numbers around zero and near both ends of the i64 range.
Numbers ==
    {I64(0), I64(1), I64(2), NegI64(1),
     <<2^15 + 2^14 - 1, Limb - 1, Limb - 1, Limb - 1>>, I64_MIN, I64_MAX}

\* The three sequences of the tests' EXAMPLE.
ExampleSequences ==
    {<<I64(0), I64(3), I64(6), I64(9), I64(12), I64(15)>>,
     <<I64(1), I64(3), I64(6), I64(10), I64(15), I64(21)>>,
     <<I64(10), I64(13), I64(16), I64(21), I64(30), I64(45)>>}

Sequences == UNION {[1..n -> Numbers] : n \in 0..MaxSeqLen} \cup ExampleSequences

Reverse(seq) == [i \in DOMAIN seq |-> seq[Len(seq) + 1 - i]]

InitDay09 ==
    /\ nprofile \in Profiles
    /\ nseq \in Sequences
    /\ fwd = <<>> /\ bwd = <<>> /\ frev = <<>>
    /\ almanac = Almanac(<<>>, NoRules)
    /\ IdleRun /\ IdleConvert /\ IdleStage /\ IdleParse
    /\ IdleWide /\ IdleImage /\ IdleExample /\ IdleDay08 /\ IdleDay04
    /\ IdleMapper /\ IdleDay07

Extrapolate ==
    /\ fwd = <<>>
    /\ fwd' = <<extrapolate(nseq, nprofile)>>
    /\ UNCHANGED <<nprofile, nseq, bwd, frev, offDay09>>

ExtrapolateBackwards ==
    /\ bwd = <<>>
    /\ bwd' = <<extrapolate_backwards(nseq, nprofile)>>
    /\ UNCHANGED <<nprofile, nseq, fwd, frev, offDay09>>

\* extrapolate called on the Sequence of the same numbers in reverse order.
ExtrapolateReversed ==
    /\ frev = <<>>
    /\ frev' = <<extrapolate(Reverse(nseq), nprofile)>>
    /\ UNCHANGED <<nprofile, nseq, fwd, bwd, offDay09>>

NextDay09 == Extrapolate \/ ExtrapolateBackwards \/ ExtrapolateReversed

SpecDay09 == InitDay09 /\ [][NextDay09]_vars

\* C26: extrapolate and extrapolate_backwards come to an end on every
\* sequence, the empty and the single-element one included, and
\* extrapolate_backwards of a sequence has the outcome of extrapolate on the
\* reversed sequence.
C26_BackwardsIsForwardOnReversed ==
    (bwd # <<>> /\ frev # <<>>) => bwd = frev

\* The same in a release build, where the arithmetic wraps.
C26_ReleaseAgrees ==
    (nprofile = "release" /\ bwd # <<>> /\ frev # <<>>)
        => bwd[1][1] = "returned" /\ bwd = frev

\* The sums of the tests: 18 + 28 + 68 = 114 forwards, -3 + 0 + 5 = 2
\* backwards.
C26_ExampleValues ==
    (nseq = <<I64(10), I64(13), I64(16), I64(21), I64(30), I64(45)>>
     /\ fwd # <<>> /\ bwd # <<>>)
        => fwd = <<Value(I64(68))>> /\ bwd = <<Value(I64(5))>>

====
